---- MODULE Spec2Model ----
(***************************************************************************)
(* TopdotWebs content pipeline.                                            *)
(*                                                                         *)
(*   tools/pipeline/sync_project_assets.py    asset synchronizer           *)
(*   tools/pipeline/sheets_to_projects_json.py  sheets -> JSON compiler    *)
(*   tools/pipeline/validate_site.py          site validator               *)
(*                                                                         *)
(* Strings the code computes on (file names, statuses) are sequences of    *)
(* character codes, so that lower(), sorting, suffix extraction, prefixing *)
(* and formatting are computed as Python computes them.  Strings the code  *)
(* only passes around (ids, spec keys, values, labels) are TLA+ strings.   *)
(***************************************************************************)
EXTENDS Integers, Sequences, FiniteSets, TLC

(* ------------------------------ bounds -------------------------------- *)

\* Largest number of directory entries of a Gallery directory in Init.
MaxFiles == 3
\* Number of consecutive synchronizer passes that are followed.
MaxPasses == 1
\* Largest already-normalized directory of the idempotence specification.
MaxIdemN == 100
\* Largest number of raw spec values of one project.
MaxSpecs == 3
\* Largest order value of a SpecDefinition.
MaxOrder == 1
\* Largest number of rows of the Projects table.
MaxRows == 2
\* Number of consecutive compiler builds that are followed.
MaxBuilds == 2
\* Largest number of spec-key columns of a wide ProjectSpecs table.
MaxCols == 2
\* Largest number of rows of a long ProjectSpecs table.
MaxTriples == 2
\* Number of consecutive synchronizer passes followed over a normalized directory.
MaxRecoverPasses == 2
\* Number of compiler builds followed when asset-sync runs come in between.
MaxPipelineBuilds == 3

(* --------------------------- string helpers --------------------------- *)

\* A sequence written as a function [i \in 1..n |-> e], as the tuple of its values.
AsSeq(f) == SubSeq(f, 1, Len(f))

\* str.lower() on one character code (ASCII letters).
LowerChar(c) == IF c >= 65 /\ c <= 90 THEN c + 32 ELSE c

\* str.lower()
Lower(s) == AsSeq([i \in 1..Len(s) |-> LowerChar(s[i])])

\* Python's str "<": lexicographic by code point, a proper prefix is smaller.
RECURSIVE StrLessFrom(_, _, _)
StrLessFrom(a, b, i) ==
    IF i > Len(b) THEN FALSE
    ELSE IF i > Len(a) THEN TRUE
    ELSE IF a[i] < b[i] THEN TRUE
    ELSE IF a[i] > b[i] THEN FALSE
    ELSE StrLessFrom(a, b, i + 1)

StrLess(a, b) == StrLessFrom(a, b, 1)

\* Decimal digits of a natural number, as character codes.
RECURSIVE Digits(_)
Digits(n) == IF n < 10 THEN <<48 + n>> ELSE Digits(n \div 10) \o <<48 + (n % 10)>>

\* f"{i:02d}": at least two digits, zero padded.
TwoDigits(i) == IF i < 10 THEN <<48>> \o Digits(i) ELSE Digits(i)

\* Index of the last "." of a name, 0 when there is none (str.rfind + 1).
RECURSIVE LastDotFrom(_, _)
LastDotFrom(s, i) ==
    IF i = 0 THEN 0 ELSE IF s[i] = 46 THEN i ELSE LastDotFrom(s, i - 1)

\* pathlib's PurePath.suffix: the last dot and what follows it, unless the dot
\* is the first or the last character of the name.
Suffix(name) ==
    LET i == LastDotFrom(name, Len(name))
    IN  IF i > 1 /\ i < Len(name) THEN SubSeq(name, i, Len(name)) ELSE <<>>

\* "_temp_"
TEMP_PREFIX == <<95, 116, 101, 109, 112, 95>>

StartsWithTemp(name) ==
    Len(name) >= Len(TEMP_PREFIX) /\ SubSeq(name, 1, Len(TEMP_PREFIX)) = TEMP_PREFIX

\* First index at which pat occurs in s, 0 when it does not (str.find + 1).
RECURSIVE FindFrom(_, _, _)
FindFrom(s, pat, i) ==
    IF i + Len(pat) - 1 > Len(s) THEN 0
    ELSE IF SubSeq(s, i, i + Len(pat) - 1) = pat THEN i
    ELSE FindFrom(s, pat, i + 1)

\* temp.name.replace("_temp_", "", 1): drop the first occurrence of the prefix.
RevertName(name) ==
    LET i == FindFrom(name, TEMP_PREFIX, 1)
    IN  IF i = 0 THEN name
        ELSE SubSeq(name, 1, i - 1) \o SubSeq(name, i + Len(TEMP_PREFIX), Len(name))

\* old.parent / f"_temp_{old.name}"
TempName(name) == TEMP_PREFIX \o name

\* ".jpg", ".jpeg", ".png", ".gif", ".webp"
ALLOWED_EXTENSIONS ==
    { <<46, 106, 112, 103>>, <<46, 106, 112, 101, 103>>, <<46, 112, 110, 103>>,
      <<46, 103, 105, 102>>, <<46, 119, 101, 98, 112>> }

is_image(name) == Lower(Suffix(name)) \in ALLOWED_EXTENSIONS

\* The Gallery directory relative to SITE_ROOT, "g/": the path prefix that
\* str(p.relative_to(SITE_ROOT)) leaves in front of a file name.
GALLERY_REL == <<103, 47>>

RelPath(name) == GALLERY_REL \o name

(* ----------------------------- file names ----------------------------- *)

\* "01.jpg"
N_01jpg == <<48, 49, 46, 106, 112, 103>>
\* "02.jpg"
N_02jpg == <<48, 50, 46, 106, 112, 103>>
\* "A.jpg"
N_Ajpg == <<65, 46, 106, 112, 103>>
\* "a.jpg" (differs from "A.jpg" in letter case only)
N_ajpg == <<97, 46, 106, 112, 103>>
\* "b.PNG" (upper-case extension)
N_bPNG == <<98, 46, 80, 78, 71>>
\* "_temp_02.jpg" (left behind by an earlier pass whose revert failed)
N_temp02jpg == TEMP_PREFIX \o N_02jpg
\* "n.txt" (not an image)
N_ntxt == <<110, 46, 116, 120, 116>>

\* The directory entries Init chooses from.
FileNames ==
    { N_01jpg, N_02jpg, N_Ajpg, N_ajpg, N_bPNG, N_temp02jpg, N_ntxt }

(* --------------------------- sequence helpers -------------------------- *)

Range(s) == { s[i] : i \in 1..Len(s) }

Reverse(s) == AsSeq([i \in 1..Len(s) |-> s[Len(s) + 1 - i]])

\* A set of names as a sequence in ascending code point order.
SetToSeq(S) ==
    LET ranked == { <<Cardinality({ y \in S : StrLess(y, x) }), x>> : x \in S }
    IN  AsSeq([p \in 1..Cardinality(S) |-> (CHOOSE r \in ranked : r[1] = p - 1)[2]])

(* ------------------------- the Gallery directory ----------------------- *)

VARIABLES
    platform,       \* "posix": Path.rename replaces an existing target; "nt": it raises
    galleryExists,  \* gallery_path.exists()
    disk,           \* the Gallery directory: file name -> content
    detailGallery,  \* detail["gallery"] as persisted in data/projects/<id>.json
    pc,             \* position of the synchronizer: idle, stage, finalize, build, main
    dry_run,        \* "--dry-run" in sys.argv
    ordered,        \* sync_gallery: ordered
    planned,        \* sync_gallery: planned_gallery_list
    renames,        \* sync_gallery: renames, pairs <<old, new>>
    temp_renames,   \* sync_gallery: temp_renames, pairs <<temp, new>>
    k,              \* index of the running for loop
    staged,         \* sync_gallery: staged
    finalized,      \* sync_gallery: finalized
    failed,         \* sync_gallery: failed
    gallery_list,   \* main: gallery_list, what sync_gallery returned
    disk0,          \* history: the directory when the running pass started
    failedFiles,    \* history: contents of the files a rename of which failed in this pass
    collision,      \* history: a rename was issued onto a name another file held
    nRenames,       \* history: number of rename calls issued in this pass
    wrote,          \* history: the pass wrote the detail JSON
    detail0,        \* history: detail["gallery"] when the running pass started
    cleanHist,      \* history: per finished pass, "not dry-run and no rename failed"
    log             \* history: the rename calls of this pass, in the order issued

galleryVars ==
    << platform, galleryExists, disk, detailGallery, pc, dry_run, ordered, planned,
       renames, temp_renames, k, staged, finalized, failed, gallery_list, disk0,
       failedFiles, collision, nRenames, wrote, detail0, cleanHist, log >>

\* The compiler's inputs and outputs.
VARIABLES
    table,          \* the projects loaded from Projects.csv by the latest build
    listing,        \* data/projects.json
    details,        \* data/projects/<id>.json: id -> the file
    builds,         \* number of builds run
    manifest_file,  \* data/_build-manifest.json
    report_file,    \* data/_change-report.txt
    old_manifest,   \* main: old_manifest, what load_manifest returned
    new_manifest,   \* main: new_manifest
    crashed         \* the latest build ended in an uncaught exception

buildVars ==
    << table, listing, details, builds, manifest_file, report_file, old_manifest,
       new_manifest, crashed >>

\* build_specs_array, its arguments and its result.
VARIABLES
    project_specs,  \* the raw (key, value) pairs of one project, in source order
    spec_defs,      \* key -> SpecDef
    specs_arr,      \* the specs array built
    specs_pc        \* "input" before build_specs_array ran, "built" after

specsVars == << project_specs, spec_defs, specs_arr, specs_pc >>

\* load_specs on the two forms of ProjectSpecs.csv.
VARIABLES
    wide_csv,       \* ProjectSpecs.csv in wide form: [header, rows]
    long_csv,       \* ProjectSpecs.csv in long form: [header, rows]
    wide_specs,     \* project id -> specs array, built from wide_csv
    long_specs,     \* project id -> specs array, built from long_csv
    load_pc         \* "wide", "long", "done": which table is compiled next

loadVars == << wide_csv, long_csv, wide_specs, long_specs, load_pc >>

\* main() of the asset synchronizer over the listing.
VARIABLES
    run_present,    \* PROJECTS_JSON.exists()
    run_dry,        \* "--dry-run" in sys.argv
    run_listing,    \* the entries of projects.json with what each one's files hold
    run_i,          \* listing entries the for loop has taken
    run_status,     \* "start", "running", "complete", "exit1" or "crashed"
    run_synced,     \* positions whose sync_gallery call returned
    run_written,    \* positions whose detail JSON was rewritten
    run_msgs        \* <<position, message>> printed by main and check_diagrams

runVars ==
    << run_present, run_dry, run_listing, run_i, run_status, run_synced,
       run_written, run_msgs >>

\* main() of the site validator.
VARIABLES
    val_listing,    \* data/projects.json: [exists, parses, isList, items]
    val_store,      \* data/projects/*.json: id -> what the file holds
    val_store0,     \* history: the store when the validator started
    val_pc,         \* "start", "listing", "details" (what has run), "exit"
    val_checked,    \* the detail JSONs validate_details has read
    val_errors,     \* list_errors + detail_errors so far
    val_warnings,   \* list_warnings + detail_warnings so far
    val_msgs,       \* the messages printed
    val_exit        \* the exit status, -1 while running

valVars ==
    << val_listing, val_store, val_store0, val_pc, val_checked, val_errors,
       val_warnings, val_msgs, val_exit >>

nonGalleryVars == << buildVars, specsVars, loadVars, runVars, valVars >>

vars == << galleryVars, buildVars, specsVars, loadVars, runVars, valVars >>

\* gallery_path.iterdir(): the order of enumeration is the file system's; the
\* model follows two of them, ascending and descending code point order.
IterDir(d, rev) ==
    IF rev THEN Reverse(SetToSeq(DOMAIN d)) ELSE SetToSeq(DOMAIN d)

\* [f for f in gallery_path.iterdir() if f.is_file() and is_image(f)]
ListImages(d, rev) == SelectSeq(IterDir(d, rev), is_image)

\* sorted(seq, key=...): Python's sort is stable, so an element comes behind the
\* elements with a smaller key and behind the earlier elements with an equal key.
StableOrder(keys) ==
    LET n == Len(keys)
        Before(i) == Cardinality({ j \in 1..n : \/ StrLess(keys[j], keys[i])
                                                \/ (keys[j] = keys[i] /\ j < i) })
        ranked == { <<Before(i), i>> : i \in 1..n }
    IN  AsSeq([p \in 1..n |-> (CHOOSE r \in ranked : r[1] = p - 1)[2]])

\* Mutant: the images are left in the order of enumeration.
NormalizeUnsorted(images) == images

\* sorted(images, key=lambda p: p.name.lower())
normalize_gallery_order(images) ==
    LET pos == StableOrder(AsSeq([i \in 1..Len(images) |-> Lower(images[i])]))
    IN  AsSeq([p \in 1..Len(images) |-> images[pos[p]]])

build_gallery_list_from_disk(d, rev) ==
    LET o == normalize_gallery_order(ListImages(d, rev))
    IN  AsSeq([i \in 1..Len(o) |-> RelPath(o[i])])

\* ext = img.suffix.lower(); new_name = f"{i:02d}{ext}"
TargetName(i, img) == TwoDigits(i) \o Lower(Suffix(img))

\* The renames list: <<img, new_path>> for every image not yet under its target name.
PlanRenames(ord) ==
    LET all == AsSeq([i \in 1..Len(ord) |-> <<ord[i], TargetName(i, ord[i])>>])
        Needed(p) == p[1] # p[2]
    IN  SelectSeq(all, Needed)

\* planned_gallery_list
PlannedList(ord) == AsSeq([i \in 1..Len(ord) |-> RelPath(TargetName(i, ord[i]))])

\* Path.rename(target) can succeed: the source exists, and the target is free
\* unless the platform replaces an existing target.
CanRename(d, src, dst, plat) ==
    /\ src \in DOMAIN d
    /\ (dst \notin DOMAIN d \/ plat = "posix")

\* The directory after a successful src.rename(dst).
Renamed(d, src, dst) ==
    [n \in (DOMAIN d \ {src}) \cup {dst} |-> IF n = dst THEN d[src] ELSE d[n]]

\* A rename onto dst is issued while a file other than src holds that name.
Collides(d, src, dst) == dst \in DOMAIN d /\ dst # src

\* The content a rename of src is about (none when src is gone).
ContentOf(d, src) == IF src \in DOMAIN d THEN {d[src]} ELSE {}

\* One rename call: the loop it was issued in ("stage", "finalize", or "revert"
\* for the best-effort revert), source and target name, whether it returned
\* (ok) or raised, and the content the source held.
Call(phase, d, src, dst, ok) ==
    [phase |-> phase, src |-> src, dst |-> dst, ok |-> ok, content |-> ContentOf(d, src)]

(* ----------------------- sync_gallery and main ------------------------- *)

\* Mutant: the plan is returned instead of what is on disk.
ReturnedPlan(d, rev, plan) == plan

\* What sync_gallery returns once the rename loops are over (or were not needed).
ReturnedList(d, rev, plan) == build_gallery_list_from_disk(d, rev)

\* main up to the call of sync_gallery, and sync_gallery up to its rename loops:
\* the early returns, the plan, the dry-run return; passes are followed up to
\* the given number.
StartPassWithin(passes) ==
    /\ pc = "idle"
    /\ Len(cleanHist) < passes
    /\ \E dr \in BOOLEAN, rev \in BOOLEAN :
         LET images == IF galleryExists THEN ListImages(disk, rev) ELSE <<>>
             ord    == normalize_gallery_order(images)
             plan   == PlannedList(ord)
             ren    == PlanRenames(ord)
         IN  /\ dry_run' = dr
             /\ ordered' = ord
             /\ planned' = plan
             /\ renames' = ren
             /\ gallery_list' = IF images = <<>> THEN <<>> ELSE IF dr THEN plan ELSE <<>>
             /\ pc' = IF images = <<>> \/ dr THEN "main"
                      ELSE IF ren # <<>> THEN "stage" ELSE "build"
    /\ temp_renames' = <<>>
    /\ k' = 1
    /\ staged' = 0
    /\ finalized' = 0
    /\ failed' = 0
    /\ disk0' = disk
    /\ detail0' = detailGallery
    /\ failedFiles' = {}
    /\ collision' = FALSE
    /\ nRenames' = 0
    /\ wrote' = FALSE
    /\ log' = <<>>
    /\ UNCHANGED nonGalleryVars
    /\ UNCHANGED << platform, galleryExists, disk, detailGallery, cleanHist >>

StartPass == StartPassWithin(MaxPasses)

\* Where the first loop goes after entry k: on, or to the second loop (which
\* has nothing to do when nothing was staged).
AfterStage(tr) ==
    IF k < Len(renames) THEN "stage" ELSE IF tr # <<>> THEN "finalize" ELSE "build"

\* First loop, old.rename(temp) succeeds.
StageOk ==
    /\ pc = "stage"
    /\ LET old  == renames[k][1]
           new  == renames[k][2]
           temp == TempName(old)
       IN  /\ CanRename(disk, old, temp, platform)
           /\ disk' = Renamed(disk, old, temp)
           /\ temp_renames' = Append(temp_renames, <<temp, new>>)
           /\ collision' = (collision \/ Collides(disk, old, temp))
           /\ log' = Append(log, Call("stage", disk, old, temp, TRUE))
           /\ pc' = AfterStage(Append(temp_renames, <<temp, new>>))
    /\ staged' = staged + 1
    /\ k' = IF k < Len(renames) THEN k + 1 ELSE 1
    /\ nRenames' = nRenames + 1
    /\ UNCHANGED nonGalleryVars
    /\ UNCHANGED << platform, galleryExists, detailGallery, dry_run, ordered, planned,
                    renames, finalized, failed, gallery_list, disk0, failedFiles,
                    wrote, detail0, cleanHist >>

\* First loop, old.rename(temp) raises PermissionError or another OSError.
StageFail ==
    /\ pc = "stage"
    /\ LET old  == renames[k][1]
           temp == TempName(old)
       IN  /\ failedFiles' = failedFiles \cup ContentOf(disk, old)
           /\ collision' = (collision \/ Collides(disk, old, temp))
           /\ log' = Append(log, Call("stage", disk, old, temp, FALSE))
    /\ failed' = failed + 1
    /\ pc' = AfterStage(temp_renames)
    /\ k' = IF k < Len(renames) THEN k + 1 ELSE 1
    /\ nRenames' = nRenames + 1
    /\ UNCHANGED nonGalleryVars
    /\ UNCHANGED << platform, galleryExists, disk, detailGallery, dry_run, ordered,
                    planned, renames, temp_renames, staged, finalized, gallery_list,
                    disk0, wrote, detail0, cleanHist >>

AfterFinalize == IF k < Len(temp_renames) THEN "finalize" ELSE "build"

\* Second loop, temp.rename(new) succeeds.
FinalizeOk ==
    /\ pc = "finalize"
    /\ LET temp == temp_renames[k][1]
           new  == temp_renames[k][2]
       IN  /\ CanRename(disk, temp, new, platform)
           /\ disk' = Renamed(disk, temp, new)
           /\ collision' = (collision \/ Collides(disk, temp, new))
           /\ log' = Append(log, Call("finalize", disk, temp, new, TRUE))
    /\ finalized' = finalized + 1
    /\ pc' = AfterFinalize
    /\ k' = k + 1
    /\ nRenames' = nRenames + 1
    /\ UNCHANGED nonGalleryVars
    /\ UNCHANGED << platform, galleryExists, detailGallery, dry_run, ordered, planned,
                    renames, temp_renames, staged, failed, gallery_list, disk0,
                    failedFiles, wrote, detail0, cleanHist >>

\* Second loop, temp.rename(new) raises and the revert temp.rename(original) succeeds.
FinalizeFailReverted ==
    /\ pc = "finalize"
    /\ LET temp     == temp_renames[k][1]
           new      == temp_renames[k][2]
           original == RevertName(temp)
       IN  /\ CanRename(disk, temp, original, platform)
           /\ disk' = Renamed(disk, temp, original)
           /\ failedFiles' = failedFiles \cup ContentOf(disk, temp)
           /\ collision' = (collision \/ Collides(disk, temp, new)
                                      \/ Collides(disk, temp, original))
           /\ log' = log \o << Call("finalize", disk, temp, new, FALSE),
                                Call("revert", disk, temp, original, TRUE) >>
    /\ failed' = failed + 1
    /\ pc' = AfterFinalize
    /\ k' = k + 1
    /\ nRenames' = nRenames + 2
    /\ UNCHANGED nonGalleryVars
    /\ UNCHANGED << platform, galleryExists, detailGallery, dry_run, ordered, planned,
                    renames, temp_renames, staged, finalized, gallery_list, disk0,
                    wrote, detail0, cleanHist >>

\* Second loop, temp.rename(new) raises and the revert raises too (swallowed).
FinalizeFailStuck ==
    /\ pc = "finalize"
    /\ LET temp     == temp_renames[k][1]
           new      == temp_renames[k][2]
           original == RevertName(temp)
       IN  /\ failedFiles' = failedFiles \cup ContentOf(disk, temp)
           /\ collision' = (collision \/ Collides(disk, temp, new)
                                      \/ Collides(disk, temp, original))
           /\ log' = log \o << Call("finalize", disk, temp, new, FALSE),
                                Call("revert", disk, temp, original, FALSE) >>
    /\ failed' = failed + 1
    /\ pc' = AfterFinalize
    /\ k' = k + 1
    /\ nRenames' = nRenames + 2
    /\ UNCHANGED nonGalleryVars
    /\ UNCHANGED << platform, galleryExists, disk, detailGallery, dry_run, ordered,
                    planned, renames, temp_renames, staged, finalized, gallery_list,
                    disk0, wrote, detail0, cleanHist >>

\* sync_gallery's last line: the list is read back from the directory.
BuildList ==
    /\ pc = "build"
    /\ \E rev \in BOOLEAN : gallery_list' = ReturnedList(disk, rev, planned)
    /\ pc' = "main"
    /\ UNCHANGED nonGalleryVars
    /\ UNCHANGED << platform, galleryExists, disk, detailGallery, dry_run, ordered,
                    planned, renames, temp_renames, k, staged, finalized, failed,
                    disk0, failedFiles, collision, nRenames, wrote, detail0, cleanHist,
                    log >>

\* Mutant: the dry-run flag is not looked at.
ShouldWriteAlsoDry(dr, list, persisted) == list # persisted

\* main: the detail JSON should be rewritten.
ShouldWrite(dr, list, persisted) == ~dr /\ list # persisted

\* main after sync_gallery: update gallery[] of the detail JSON when it differs.
UpdateDetail ==
    /\ pc = "main"
    /\ detailGallery' = IF ShouldWrite(dry_run, gallery_list, detailGallery)
                        THEN gallery_list ELSE detailGallery
    /\ wrote' = ShouldWrite(dry_run, gallery_list, detailGallery)
    /\ cleanHist' = Append(cleanHist, ~dry_run /\ failed = 0)
    /\ pc' = "idle"
    /\ UNCHANGED nonGalleryVars
    /\ UNCHANGED << platform, galleryExists, disk, dry_run, ordered, planned, renames,
                    temp_renames, k, staged, finalized, failed, gallery_list, disk0,
                    failedFiles, collision, nRenames, detail0, log >>

\* A directory of the given entries, each file holding its own content.
DiskOf(S) == [n \in S |-> n]

Platforms == {"posix", "nt"}

\* The synchronizer before its first pass.
GalleryRest ==
    /\ pc = "idle"
    /\ dry_run = FALSE
    /\ ordered = <<>>
    /\ planned = <<>>
    /\ renames = <<>>
    /\ temp_renames = <<>>
    /\ k = 1
    /\ staged = 0
    /\ finalized = 0
    /\ failed = 0
    /\ gallery_list = <<>>
    /\ disk0 = disk
    /\ detail0 = detailGallery
    /\ failedFiles = {}
    /\ collision = FALSE
    /\ nRenames = 0
    /\ wrote = FALSE
    /\ cleanHist = <<>>
    /\ log = <<>>

\* Any directory of up to MaxFiles entries (none when Gallery/ is missing); the
\* detail record lists it, or holds a stale list.
GalleryInit ==
    /\ platform \in Platforms
    /\ galleryExists \in BOOLEAN
    /\ \E S \in SUBSET FileNames :
         /\ Cardinality(S) <= MaxFiles
         /\ galleryExists \/ S = {}
         /\ disk = DiskOf(S)
    /\ detailGallery \in { build_gallery_list_from_disk(disk, FALSE), <<RelPath(N_Ajpg)>> }
    /\ GalleryRest

(* --------------------------- build_specs_array ------------------------- *)

SpecKeys == {"area", "beds", "lot"}

SpecValues == {"1", "2"}

\* The SpecDef rows: label, emit, show_on, order (key is the table's key).
SpecDefs ==
    [label : {"Label"}, emit : BOOLEAN, show_on : {<<"detail">>}, order : 0..MaxOrder]

\* Mutant: the emit flag is not looked at.
EmitsKnown(defs, key) == key \in DOMAIN defs

\* spec_def = spec_defs.get(key); "if not spec_def or not spec_def.emit: continue"
Emits(defs, key) == key \in DOMAIN defs /\ defs[key].emit

\* The dict appended for one (key, value) pair that passed the gate.
SpecEntry(defs, pair) ==
    [key |-> pair[1], label |-> defs[pair[1]].label, value |-> pair[2],
     showOn |-> defs[pair[1]].show_on, order |-> defs[pair[1]].order]

\* Mutant: an unstable sort, entries of equal order come out reversed.
SortByOrderUnstable(specs) ==
    LET n == Len(specs)
        Before(i) ==
            Cardinality({ j \in 1..n : \/ specs[j].order < specs[i].order
                                       \/ (specs[j].order = specs[i].order /\ j > i) })
    IN  AsSeq([p \in 1..n |-> specs[CHOOSE i \in 1..n : Before(i) = p - 1]])

\* specs.sort(key=lambda s: s["order"]): stable, as above, on integer keys.
SortByOrder(specs) ==
    LET n == Len(specs)
        Before(i) ==
            Cardinality({ j \in 1..n : \/ specs[j].order < specs[i].order
                                       \/ (specs[j].order = specs[i].order /\ j < i) })
    IN  AsSeq([p \in 1..n |-> specs[CHOOSE i \in 1..n : Before(i) = p - 1]])

build_specs_array(ps, defs) ==
    LET Gate(pair) == Emits(defs, pair[1])
        kept  == SelectSeq(ps, Gate)
        specs == AsSeq([i \in 1..Len(kept) |-> SpecEntry(defs, kept[i])])
    IN  SortByOrder(specs)

EmptyMap == [x \in {} |-> x]

SeqsUpTo(S, n) == UNION { [1..m -> S] : m \in 0..n }

SpecsIdle ==
    /\ project_specs = <<>>
    /\ spec_defs = EmptyMap
    /\ specs_arr = <<>>
    /\ specs_pc = "input"

SpecsInit ==
    /\ project_specs \in SeqsUpTo(SpecKeys \X SpecValues, MaxSpecs)
    /\ \E K \in SUBSET SpecKeys : spec_defs \in [K -> SpecDefs]
    /\ specs_arr = <<>>
    /\ specs_pc = "input"

\* main: specs_arr = build_specs_array(project_specs, spec_defs)
BuildSpecs ==
    /\ specs_pc = "input"
    /\ specs_arr' = build_specs_array(project_specs, spec_defs)
    /\ specs_pc' = "built"
    /\ UNCHANGED << project_specs, spec_defs, galleryVars, buildVars, loadVars, runVars, valVars >>

(* ------------------------------- load_specs --------------------------- *)

\* The project ids of the tables.
ProjectIds == {"p1", "p2"}

\* The id cells: a project id, or empty.
RawIds == ProjectIds \cup {""}

\* The spec-key columns of a wide table.
WideKeys == {"area", "beds"}

\* The value cells ("" is the empty cell); text without surrounding blanks, on
\* which strip() changes nothing.
ValueCells == {"", "1", "2"}

\* The sequences without repetition of at most n elements of S.
DistinctSeqs(S, n) ==
    { q \in SeqsUpTo(S, n) : \A i, j \in 1..Len(q) : i # j => q[i] # q[j] }

\* csv.DictReader row r of table t: r.get(col, default).
CsvGet(t, r, col, default) ==
    IF \E j \in 1..Len(t.header) : t.header[j] = col
    THEN r[CHOOSE j \in 1..Len(t.header) : t.header[j] = col]
    ELSE default

\* is_empty(val): not val or not str(val).strip()
is_empty(val) == val = ""

\* "for r in rows" of the long branch.
LongRows(t) == t.rows

\* load_specs: project id -> the (key, value) pairs in the order met. The shape
\* is detected on the header; a wide table is read row by row, each row column
\* by column, a long table row by row.
load_specs(t) ==
    LET first_keys == Range(t.header)
        is_long    == "key" \in first_keys /\ "value" \in first_keys
        n          == Len(t.rows)
        m          == Len(t.header)
        WidePid(r) == IF CsvGet(t, r, "project_id", "") # ""
                      THEN CsvGet(t, r, "project_id", "") ELSE CsvGet(t, r, "id", "")
        wideAll    == AsSeq([p \in 1..(n * m) |->
                          LET r == t.rows[((p - 1) \div m) + 1]
                              j == ((p - 1) % m) + 1
                          IN  <<WidePid(r), t.header[j], r[j]>>])
        WideKeep(e) == /\ e[1] # ""
                       /\ e[2] \notin {"", "project_id", "id"}
                       /\ ~is_empty(e[3])
        lrows      == LongRows(t)
        longAll    == AsSeq([i \in 1..n |->
                          <<CsvGet(t, lrows[i], "project_id", ""),
                            CsvGet(t, lrows[i], "key", ""),
                            CsvGet(t, lrows[i], "value", "")>>])
        LongKeep(e) == e[1] # "" /\ e[2] # "" /\ ~is_empty(e[3])
        entries    == IF n = 0 THEN <<>>
                      ELSE IF is_long THEN SelectSeq(longAll, LongKeep)
                      ELSE SelectSeq(wideAll, WideKeep)
        Of(pid)    == SelectSeq(entries, LAMBDA e : e[1] = pid)
    IN  [pid \in { entries[i][1] : i \in 1..Len(entries) } |->
            AsSeq([i \in 1..Len(Of(pid)) |-> <<Of(pid)[i][2], Of(pid)[i][3]>>])]

\* all_specs.get(p.id, [])
SpecsOf(all_specs, pid) == IF pid \in DOMAIN all_specs THEN all_specs[pid] ELSE <<>>

\* main, lines 354-370: the specs array of every project, from one table.
CompileSpecs(t, defs) ==
    [pid \in ProjectIds |-> build_specs_array(SpecsOf(load_specs(t), pid), defs)]

\* The rows of a wide table with the given spec-key columns: a project id and
\* any cells, or a row without id.
WideRows(cols) ==
    { <<id>> \o c : id \in ProjectIds, c \in [1..Len(cols) -> ValueCells] }
        \cup { <<"">> \o [j \in 1..Len(cols) |-> "1"] }

\* Wide tables: project_id, then at most MaxCols spec-key columns in any order;
\* at most MaxRows rows.
WideTables ==
    UNION { { [header |-> <<"project_id">> \o cols, rows |-> rs] :
                rs \in SeqsUpTo(WideRows(cols), MaxRows) } :
            cols \in DistinctSeqs(WideKeys, MaxCols) }

\* The rows of a long table: a triple, or a row without id, key or value.
LongRowCells ==
    (ProjectIds \X WideKeys \X (ValueCells \ {""}))
        \cup { <<"", "area", "1">>, <<"p1", "", "1">>, <<"p1", "area", "">> }

\* Long tables: project_id, key, value; at most MaxTriples rows in any order.
LongTables ==
    { [header |-> <<"project_id", "key", "value">>, rows |-> rs] :
        rs \in SeqsUpTo(LongRowCells, MaxTriples) }

\* The (project_id, key, value) triples a wide table holds: one per filled
\* cell of a row that has a project id.
LogicalWide(t) ==
    { <<t.rows[i][1], t.header[j], t.rows[i][j]>> :
        <<i, j>> \in { x \in (1..Len(t.rows)) \X (2..Len(t.header)) :
                        t.rows[x[1]][1] # "" /\ t.rows[x[1]][x[2]] # "" } }

\* The triples a long table holds: its rows with an id, a key and a value.
LogicalLong(t) ==
    { r \in Range(t.rows) : r[1] # "" /\ r[2] # "" /\ r[3] # "" }

\* No triple is held by two cells of the wide table.
OnceWide(t) ==
    \A i1, i2 \in 1..Len(t.rows), j \in 2..Len(t.header) :
        (i1 # i2 /\ t.rows[i1][1] # "" /\ t.rows[i1][j] # "")
            => (t.rows[i1][1] # t.rows[i2][1] \/ t.rows[i1][j] # t.rows[i2][j])

\* No triple is held by two rows of the long table.
OnceLong(t) ==
    \A i1, i2 \in 1..Len(t.rows) :
        (i1 # i2 /\ t.rows[i1] \in LogicalLong(t)) => t.rows[i1] # t.rows[i2]

\* The two tables hold the same triples, each once.
SameData(w, l) == LogicalWide(w) = LogicalLong(l) /\ OnceWide(w) /\ OnceLong(l)

LoadIdle ==
    /\ wide_csv = [header |-> <<>>, rows |-> <<>>]
    /\ long_csv = [header |-> <<>>, rows |-> <<>>]
    /\ wide_specs = EmptyMap
    /\ long_specs = EmptyMap
    /\ load_pc = "done"

\* The same logical data in a wide and in a long table, and any SpecDefinitions.
LoadInit ==
    /\ wide_csv \in WideTables
    /\ long_csv \in { t \in LongTables : SameData(wide_csv, t) }
    /\ wide_specs = EmptyMap
    /\ long_specs = EmptyMap
    /\ load_pc = "wide"

\* A build with ProjectSpecs.csv in wide form.
LoadWide ==
    /\ load_pc = "wide"
    /\ wide_specs' = CompileSpecs(wide_csv, spec_defs)
    /\ load_pc' = "long"
    /\ UNCHANGED << wide_csv, long_csv, long_specs, galleryVars, buildVars, specsVars,
                    runVars, valVars >>

\* A build with ProjectSpecs.csv in long form.
LoadLong ==
    /\ load_pc = "long"
    /\ long_specs' = CompileSpecs(long_csv, spec_defs)
    /\ load_pc' = "done"
    /\ UNCHANGED << wide_csv, long_csv, wide_specs, galleryVars, buildVars, specsVars,
                    runVars, valVars >>

(* ------------------------------ the compiler --------------------------- *)

\* "published"
S_published == <<112, 117, 98, 108, 105, 115, 104, 101, 100>>
\* "coming-soon"
S_coming_soon == <<99, 111, 109, 105, 110, 103, 45, 115, 111, 111, 110>>
\* "draft"
S_draft == <<100, 114, 97, 102, 116>>
\* "Published"
S_Published == <<80, 117, 98, 108, 105, 115, 104, 101, 100>>
\* " draft" (leading blank)
S_blank_draft == <<32>> \o S_draft
\* "archived"
S_archived == <<97, 114, 99, 104, 105, 118, 101, 100>>

\* The status cells the Projects table is filled from ("" is the empty cell).
RawStatuses == { S_published, S_coming_soon, S_draft, S_Published, S_blank_draft,
                 S_archived, <<>> }

\* str.strip() (blanks).
RECURSIVE LStrip(_)
LStrip(s) == IF s # <<>> /\ Head(s) = 32 THEN LStrip(Tail(s)) ELSE s

RECURSIVE RStrip(_)
RStrip(s) ==
    IF s # <<>> /\ s[Len(s)] = 32 THEN RStrip(SubSeq(s, 1, Len(s) - 1)) ELSE s

Strip(s) == RStrip(LStrip(s))

\* load_projects: rows without an id are skipped; status defaults to "draft".
LoadRow(r) ==
    [id |-> r.id, status |-> IF Strip(r.status) = <<>> THEN S_draft ELSE Strip(r.status)]

load_projects(rows) ==
    LET HasId(r) == r.id # ""
        kept == SelectSeq(rows, HasId)
    IN  AsSeq([i \in 1..Len(kept) |-> LoadRow(kept[i])])

\* status.lower() in {"published", "coming-soon"}
should_publish(status) == Lower(status) \in {S_published, S_coming_soon}

build_listing_entry(p) == [id |-> p.id, status |-> p.status]

\* Mutant: the gallery found in the store is not put into the record.
DetailWithoutGallery(p, existing_gallery) ==
    [id |-> p.id, status |-> p.status, gallery |-> <<>>]

build_detail_json(p, existing_gallery) ==
    [id |-> p.id, status |-> p.status, gallery |-> existing_gallery]

\* A detail file main wrote: json.dumps(detail).
JsonFile(doc) == [parses |-> TRUE, hasGallery |-> TRUE, doc |-> doc]

\* Mutant: the gallery is not carried forward.
NoExistingGallery(store, id) == <<>>

\* Lines 374-380: existing.get("gallery", []) of the detail JSON already in the
\* store; [] when there is no file, when it does not parse as a JSON object
\* (the bare except), or when it has no gallery member.
ExistingGallery(store, id) ==
    IF id \in DOMAIN store /\ store[id].parses /\ store[id].hasGallery
    THEN store[id].doc.gallery ELSE <<>>

\* The project of the publishable list with the given id.
ProjectOf(publishable, id) ==
    publishable[CHOOSE i \in 1..Len(publishable) : publishable[i].id = id]

\* The detail store after main has written the detail JSON of every publishable
\* project; a file main does not write is left as it is.
WriteDetails(store, publishable) ==
    LET ids == { publishable[i].id : i \in 1..Len(publishable) }
    IN  [id \in DOMAIN store \cup ids |->
            IF id \in ids
            THEN JsonFile(build_detail_json(ProjectOf(publishable, id),
                                            ExistingGallery(store, id)))
            ELSE store[id]]

\* compute_hash: the digest of the canonical (key-sorted) serialisation of the
\* value; values that differ are taken to have different digests.
compute_hash(data) == [sha256 |-> data]

\* Mutant: the hash is taken of the detail record before the gallery is put in.
ProjectHashesNoGallery(store, publishable) ==
    [id \in { publishable[i].id : i \in 1..Len(publishable) } |->
        compute_hash(build_detail_json(ProjectOf(publishable, id), <<>>))]

\* project_hashes[p.id] = compute_hash(detail), detail as written (line 383).
ProjectHashes(store, publishable) ==
    [id \in { publishable[i].id : i \in 1..Len(publishable) } |->
        compute_hash(build_detail_json(ProjectOf(publishable, id),
                                       ExistingGallery(store, id)))]

\* A JSON value read from or written to the manifest file: a list, or an object
\* whose "projects" member is missing, a map id -> hash, or a list.
ManifestValue(kind, projKind, projects, listing_hash) ==
    [kind |-> kind, projKind |-> projKind, projects |-> projects,
     listing_hash |-> listing_hash, generated_at |-> "now"]

\* {}
EmptyDict == ManifestValue("object", "missing", EmptyMap, compute_hash(<<>>))

\* The manifest file: missing, not parseable, or holding a JSON value.
NoFile == [exists |-> FALSE, parses |-> FALSE, value |-> EmptyDict]

GarbageFile == [exists |-> TRUE, parses |-> FALSE, value |-> EmptyDict]

ManifestFileOf(value) == [exists |-> TRUE, parses |-> TRUE, value |-> value]

\* Mutant: the previous manifest is not read.
LoadManifestEmpty(file) == EmptyDict

\* load_manifest: {} when the file is missing or does not parse, else the JSON
\* value whatever its shape.
load_manifest(file) ==
    IF ~file.exists \/ ~file.parses THEN EmptyDict ELSE file.value

\* main, lines 392-396.
NewManifest(project_hashes, lst) ==
    ManifestValue("object", "map", project_hashes, compute_hash(lst))

\* m.get("projects", {}) and the .keys() taken of it raise AttributeError when
\* m is not an object, or its projects member not a map.
ReportRaises(old, new) ==
    \/ old.kind # "object" \/ old.projKind \notin {"missing", "map"}
    \/ new.kind # "object" \/ new.projKind \notin {"missing", "map"}

\* m.get("projects", {})
GetProjects(m) == IF m.projKind = "map" THEN m.projects ELSE EmptyMap

\* The ids of the tables and manifests, in the order of Python's str "<".
IdsAscending == <<"a", "b", "c", "d", "p1", "p2">>

\* sorted(bucket)
SortedIds(bucket) == SelectSeq(IdsAscending, LAMBDA x : x \in bucket)

\* Mutant: an id in both manifests counts as changed whatever its hashes.
ChangedAllCommon(old_hashes, new_hashes) == DOMAIN new_hashes \cap DOMAIN old_hashes

\* changed = {k for k in new_hashes if k in old_hashes and new_hashes[k] != old_hashes[k]}
Changed(old_hashes, new_hashes) ==
    { x \in DOMAIN new_hashes : x \in DOMAIN old_hashes /\ new_hashes[x] # old_hashes[x] }

\* One section of the report: title and count, a line per id, an empty line.
Section(title, mark, bucket) ==
    IF bucket = {} THEN <<>>
    ELSE <<title \o ": " \o ToString(Cardinality(bucket))>>
         \o AsSeq([i \in 1..Cardinality(bucket) |->
                      "  " \o mark \o " " \o SortedIds(bucket)[i]])
         \o <<"">>

\* generate_change_report: the lines that "\n".join(lines) puts together.
generate_change_report(old, new) ==
    LET old_hashes == GetProjects(old)
        new_hashes == GetProjects(new)
        added      == DOMAIN new_hashes \ DOMAIN old_hashes
        removed    == DOMAIN old_hashes \ DOMAIN new_hashes
        changed    == Changed(old_hashes, new_hashes)
    IN  <<"=== Build Change Report ===\n">>
        \o Section("Added", "+", added)
        \o Section("Removed", "-", removed)
        \o Section("Changed", "~", changed)
        \o (IF added = {} /\ removed = {} /\ changed = {}
            THEN <<"No changes detected.\n">> ELSE <<>>)

\* The report file: missing, or holding the lines.
NoReport == [exists |-> FALSE, lines |-> <<>>]

ReportFileOf(lines) == [exists |-> TRUE, lines |-> lines]

\* The tables a build may read: rows in any order, no id on two rows.
Tables ==
    { t \in SeqsUpTo([id : RawIds, status : RawStatuses], MaxRows) :
        \A i, j \in 1..Len(t) : (i # j /\ t[i].id # "") => t[i].id # t[j].id }

\* The compiler before its first build.
BuildRest ==
    /\ table = <<>>
    /\ listing = <<>>
    /\ builds = 0
    /\ report_file = NoReport
    /\ old_manifest = EmptyDict
    /\ new_manifest = EmptyDict
    /\ crashed = FALSE

\* An empty output store.
BuildInit ==
    /\ details = EmptyMap
    /\ manifest_file = NoFile
    /\ BuildRest

\* sheets_to_projects_json.main: one build on a Projects table of T, builds
\* being followed up to the given number. The details, the listing and the
\* manifest are written before the report is made, so they are in place when
\* generate_change_report raises.
BuildWithin(T, most) ==
    /\ builds < most
    /\ \E rows \in T :
         LET projects    == load_projects(rows)
             publishable == SelectSeq(projects, LAMBDA p : should_publish(p.status))
             lst         == AsSeq([i \in 1..Len(publishable) |->
                                      build_listing_entry(publishable[i])])
             old         == load_manifest(manifest_file)
             new         == NewManifest(ProjectHashes(details, publishable), lst)
         IN  /\ table' = projects
             /\ listing' = lst
             /\ details' = WriteDetails(details, publishable)
             /\ old_manifest' = old
             /\ new_manifest' = new
             /\ manifest_file' = ManifestFileOf(new)
             /\ crashed' = ReportRaises(old, new)
             /\ report_file' = IF ReportRaises(old, new) THEN report_file
                               ELSE ReportFileOf(generate_change_report(old, new))
    /\ builds' = builds + 1
    /\ UNCHANGED << galleryVars, specsVars, loadVars, runVars, valVars >>

BuildWith(T) == BuildWithin(T, MaxBuilds)

Build == BuildWith(Tables)

\* The statuses of the tables compiled onto a store left by earlier runs.
StoreStatuses == { S_published, S_coming_soon, S_Published, S_draft, S_archived }

\* Projects tables with one row per project at most, rows in any order.
StoreTables ==
    { t \in SeqsUpTo([id : ProjectIds, status : StoreStatuses], Cardinality(ProjectIds)) :
        \A i, j \in 1..Len(t) : i # j => t[i].id # t[j].id }

\* A detail file found in the store: not parseable as a JSON object, an object
\* without a gallery member, or a detail record with a gallery.
FoundFile(id, kind) ==
    [parses     |-> kind # "garbage",
     hasGallery |-> kind = "gallery",
     doc        |-> build_detail_json([id |-> id, status |-> S_published],
                                      IF kind = "gallery" THEN <<RelPath(N_01jpg)>> ELSE <<>>)]

\* The detail stores a build may find.
FoundStores ==
    UNION { { [id \in K |-> FoundFile(id, kinds[id])] :
                kinds \in [K -> {"garbage", "nogallery", "gallery"}] } :
            K \in SUBSET ProjectIds }

\* A hash an earlier build stored for a project.
StaleHash(id) == compute_hash(build_detail_json([id |-> id, status |-> S_draft], <<>>))

\* The manifest files a build may find: none, one that does not parse, a JSON
\* list, an object without projects member, an object whose projects member
\* is a list, a manifest of an earlier build.
FoundManifests ==
    { NoFile, GarbageFile,
      ManifestFileOf(ManifestValue("list", "missing", EmptyMap, compute_hash(<<>>))),
      ManifestFileOf(EmptyDict),
      ManifestFileOf(ManifestValue("object", "list", EmptyMap, compute_hash(<<>>))) }
    \cup { ManifestFileOf(ManifestValue("object", "map", [id \in K |-> StaleHash(id)],
                                        compute_hash(<<>>))) : K \in SUBSET ProjectIds }

\* Any output store.
StoreInit ==
    /\ details \in FoundStores
    /\ manifest_file \in FoundManifests
    /\ BuildRest

StoreBuild == BuildWith(StoreTables)

\* The tables compiled when asset-sync runs come in between the builds.
PipelineTables ==
    { t \in SeqsUpTo([id : ProjectIds, status : {S_published, S_draft}],
                     Cardinality(ProjectIds)) :
        \A i, j \in 1..Len(t) : i # j => t[i].id # t[j].id }

PipelineBuild == BuildWithin(PipelineTables, MaxPipelineBuilds)

\* The lists sync_gallery returns for an entity: [] for a missing or empty
\* Gallery, or the list of the directory.
SyncLists == { <<>>, <<RelPath(N_01jpg)>>, <<RelPath(N_01jpg), RelPath(N_02jpg)>> }

\* sync_project_assets.main over the store (lines 160-192): for the entries
\* of projects.json in turn, gallery[] of the detail JSON is set to the list
\* sync_gallery returned when the two differ, every other member being
\* written back as read; the run takes the first n entries (all of them, or
\* those before the exception that ends it at line 195).
SyncStore ==
    /\ \E n \in 0..Len(listing) :
         \E g \in [{ listing[i].id : i \in 1..n } -> SyncLists] :
             details' = [id \in DOMAIN details |->
                            IF id \in DOMAIN g /\ details[id].parses
                            THEN [details[id] EXCEPT !.doc.gallery = g[id],
                                                     !.hasGallery = TRUE]
                            ELSE details[id]]
    /\ UNCHANGED << table, listing, builds, manifest_file, report_file, old_manifest,
                    new_manifest, crashed >>
    /\ UNCHANGED << galleryVars, specsVars, loadVars, runVars, valVars >>

\* The ids and hashes of the manifests a change report is made of.
ReportIds == {"a", "b", "c", "d"}

ReportHashes == {"h1", "h2", "h3"}

\* Manifests of the expected shape: {} and any map id -> hash.
ReportManifests ==
    { EmptyDict } \cup
    UNION { { ManifestValue("object", "map", h, compute_hash(<<>>)) :
                h \in [K -> ReportHashes] } : K \in SUBSET ReportIds }

\* main, lines 400-401: the report is generated and written.
GenerateReport ==
    /\ ~report_file.exists
    /\ ~crashed
    /\ crashed' = ReportRaises(old_manifest, new_manifest)
    /\ report_file' = IF ReportRaises(old_manifest, new_manifest) THEN report_file
                      ELSE ReportFileOf(generate_change_report(old_manifest, new_manifest))
    /\ UNCHANGED << table, listing, details, builds, manifest_file, old_manifest,
                    new_manifest, galleryVars, specsVars, loadVars, runVars, valVars >>

(* ------------------- asset synchronizer: main over a listing ------------ *)

\* Listing entries a run goes through.
MaxEntities == 2

\* A listing entry with everything in place: an id, a parseable detail JSON
\* with featuredImage, tags and a gallery[] equal to the directory's list, the
\* featured file, and a Gallery directory of images that needs no rename.
Healthy ==
    [ id       |-> TRUE,        \* item.get("id") is a non-empty string
      detail   |-> "json",      \* "missing", "garbage" (not JSON) or "json"
      featured |-> "present",   \* "none" (no featuredImage), "absent" (no file) or "present"
      gallery  |-> "clean",     \* "missing", "empty", "clean" or "failing" (renames raise)
      stale    |-> FALSE,       \* gallery[] of the detail differs from the list sync_gallery returns
      type     |-> "",          \* detail.get("type"): "" when absent
      tags     |-> "house",     \* "absent", "empty" ([]), or the first tag
      diagrams |-> "images" ]   \* Diagrams/: "missing", "empty" or "images"

\* Healthy and the entries that differ from it in one respect, a multi-unit
\* entry (by tag or by type) with each state of Diagrams/ among them.
Entities ==
    {Healthy}
    \cup {[Healthy EXCEPT !.id = FALSE]}
    \cup {[Healthy EXCEPT !.detail = v] : v \in {"missing", "garbage"}}
    \cup {[Healthy EXCEPT !.featured = v] : v \in {"none", "absent"}}
    \cup {[Healthy EXCEPT !.gallery = v] : v \in {"missing", "empty", "failing"}}
    \cup {[Healthy EXCEPT !.stale = TRUE]}
    \cup {[Healthy EXCEPT !.gallery = "failing", !.stale = TRUE]}
    \cup {[Healthy EXCEPT !.tags = v] : v \in {"absent", "empty"}}
    \cup {[Healthy EXCEPT !.tags = "empty", !.type = "house"]}
    \cup {[Healthy EXCEPT !.diagrams = v] : v \in {"missing", "empty"}}
    \cup {[Healthy EXCEPT !.tags = "multi-unit", !.diagrams = v] :
            v \in {"missing", "empty", "images"}}
    \cup {[Healthy EXCEPT !.type = "multi-unit", !.tags = "empty", !.diagrams = v] :
            v \in {"missing", "images"}}

\* The body of the for loop gets as far as sync_gallery for this entry.
ReachesSync(e) == e.id /\ e.detail = "json" /\ e.featured # "none"

\* json.loads of the detail JSON raises.
DetailRaises(e) == e.id /\ e.detail = "garbage"

\* detail.get("tags", [""])[0] raises IndexError: no type and tags is [].
TypeRaises(e) == ReachesSync(e) /\ e.type = "" /\ e.tags = "empty"

\* detail.get("type") or (detail.get("tags", [""])[0])
ProjectType(e) ==
    IF e.type # "" THEN e.type
    ELSE IF e.tags = "absent" THEN ""
    ELSE e.tags

\* check_diagrams prints its warning.
check_diagrams(project_type, diagrams) ==
    project_type = "multi-unit" /\ diagrams # "images"

\* What main prints for one entry.
Messages(e) ==
    IF ~e.id THEN {}
    ELSE IF e.detail = "missing" THEN {"detail JSON not found, skipping"}
    ELSE IF e.detail = "garbage" THEN {}
    ELSE IF e.featured = "none" THEN {"no featuredImage"}
    ELSE (IF e.featured = "absent" THEN {"Featured image not found"} ELSE {})
         \cup (IF e.gallery = "missing" THEN {"Gallery/ not found"} ELSE {})
         \cup (IF e.gallery = "empty" THEN {"Gallery/ is empty"} ELSE {})
         \cup (IF e.gallery = "failing" /\ ~run_dry THEN {"Cannot rename"} ELSE {})
         \cup (IF ~TypeRaises(e) /\ check_diagrams(ProjectType(e), e.diagrams)
               THEN {"No diagrams found"} ELSE {})

RunIdle ==
    /\ run_present = FALSE
    /\ run_dry = FALSE
    /\ run_listing = <<>>
    /\ run_i = 0
    /\ run_status = "exit1"
    /\ run_synced = {}
    /\ run_written = {}
    /\ run_msgs = {}

RunInit ==
    /\ run_present \in BOOLEAN
    /\ run_dry \in BOOLEAN
    /\ run_listing \in SeqsUpTo(Entities, MaxEntities)
    /\ run_i = 0
    /\ run_status = "start"
    /\ run_synced = {}
    /\ run_written = {}
    /\ run_msgs = {}

\* main up to the for loop: sys.exit(1) when projects.json is not there.
RunStart ==
    /\ run_status = "start"
    /\ run_status' = IF run_present THEN "running" ELSE "exit1"
    /\ UNCHANGED << run_present, run_dry, run_listing, run_i, run_synced,
                    run_written, run_msgs >>
    /\ UNCHANGED << galleryVars, buildVars, specsVars, loadVars, valVars >>

\* One iteration of the for loop, an exception ending the run.
SyncItem ==
    /\ run_status = "running"
    /\ run_i < Len(run_listing)
    /\ LET i == run_i + 1
           e == run_listing[i]
       IN  /\ run_i' = i
           /\ run_msgs' = run_msgs \cup { <<i, m>> : m \in Messages(e) }
           /\ run_synced' = IF ReachesSync(e) THEN run_synced \cup {i} ELSE run_synced
           /\ run_written' = IF ReachesSync(e) /\ ~run_dry /\ e.stale
                             THEN run_written \cup {i} ELSE run_written
           /\ run_status' = IF DetailRaises(e) \/ TypeRaises(e)
                            THEN "crashed" ELSE "running"
    /\ UNCHANGED << run_present, run_dry, run_listing >>
    /\ UNCHANGED << galleryVars, buildVars, specsVars, loadVars, valVars >>

\* The loop is over: "Assets sync complete."
RunComplete ==
    /\ run_status = "running"
    /\ run_i = Len(run_listing)
    /\ run_status' = "complete"
    /\ UNCHANGED << run_present, run_dry, run_listing, run_i, run_synced,
                    run_written, run_msgs >>
    /\ UNCHANGED << galleryVars, buildVars, specsVars, loadVars, valVars >>

(* ------------------------------ the validator -------------------------- *)

\* Largest number of entries of the projects.json the validator reads.
MaxItems == 2

\* What validate_listing finds about one listing entry (a JSON object).
ItemKinds == {"ok", "no id", "no detailJson", "detail not found", "thumbnail not found"}

\* What validate_details finds about one detail JSON.
DetailKinds ==
    {"ok", "parse error", "no featuredImage", "featuredImage not found",
     "gallery image not found", "spec missing key"}

\* The findings counted as errors; the others among the kinds but "ok" are warnings.
ErrorKinds ==
    {"no id", "detail not found", "thumbnail not found", "parse error",
     "featuredImage not found", "gallery image not found", "spec missing key"}

WarningKinds == {"no detailJson", "no featuredImage"}

\* Number of entries of a sequence of findings that are in a set of kinds.
CountKinds(findings, kinds) ==
    Cardinality({ i \in 1..Len(findings) : findings[i] \in kinds })

\* projects.json: absent, not JSON, JSON but not an array, or an array of entries.
ListingFiles ==
    { [exists |-> FALSE, parses |-> FALSE, isList |-> FALSE, items |-> <<>>],
      [exists |-> TRUE, parses |-> FALSE, isList |-> FALSE, items |-> <<>>],
      [exists |-> TRUE, parses |-> TRUE, isList |-> FALSE, items |-> <<>>] }
    \cup { [exists |-> TRUE, parses |-> TRUE, isList |-> TRUE, items |-> it] :
             it \in SeqsUpTo(ItemKinds, MaxItems) }

\* validate_listing: (errors, warnings, messages).
validate_listing(file) ==
    IF ~file.exists
    THEN [errors |-> 1, warnings |-> 0, msgs |-> {"projects.json not found"}]
    ELSE IF ~file.parses
    THEN [errors |-> 1, warnings |-> 0, msgs |-> {"projects.json parse error"}]
    ELSE IF ~file.isList
    THEN [errors |-> 1, warnings |-> 0, msgs |-> {"projects.json is not an array"}]
    ELSE [errors   |-> CountKinds(file.items, ErrorKinds),
          warnings |-> CountKinds(file.items, WarningKinds),
          msgs     |-> {"Listing"} \cup (Range(file.items) \ {"ok"})]

\* validate_details: (errors, warnings, messages) over sorted(PROJECTS_DIR.glob("*.json")).
validate_details(store) ==
    [errors   |-> Cardinality({ id \in DOMAIN store : store[id] \in ErrorKinds }),
     warnings |-> Cardinality({ id \in DOMAIN store : store[id] \in WarningKinds }),
     msgs     |-> {"Detail JSONs"} \cup ({ store[id] : id \in DOMAIN store } \ {"ok"})]

ValIdle ==
    /\ val_listing = [exists |-> FALSE, parses |-> FALSE, isList |-> FALSE, items |-> <<>>]
    /\ val_store = EmptyMap
    /\ val_store0 = EmptyMap
    /\ val_pc = "exit"
    /\ val_checked = {}
    /\ val_errors = 0
    /\ val_warnings = 0
    /\ val_msgs = {}
    /\ val_exit = 0

ValInit ==
    /\ val_listing \in ListingFiles
    /\ \E K \in SUBSET ProjectIds : val_store \in [K -> DetailKinds]
    /\ val_store0 = val_store
    /\ val_pc = "start"
    /\ val_checked = {}
    /\ val_errors = 0
    /\ val_warnings = 0
    /\ val_msgs = {}
    /\ val_exit = -1

\* main, line 145: list_errors, list_warnings = validate_listing()
ValidateListing ==
    /\ val_pc = "start"
    /\ LET r == validate_listing(val_listing)
       IN  /\ val_errors' = val_errors + r.errors
           /\ val_warnings' = val_warnings + r.warnings
           /\ val_msgs' = val_msgs \cup r.msgs
    /\ val_pc' = "listing"
    /\ UNCHANGED << val_listing, val_store, val_store0, val_checked, val_exit >>
    /\ UNCHANGED << galleryVars, buildVars, specsVars, loadVars, runVars >>

\* main, line 146: detail_errors, detail_warnings = validate_details(), called
\* whatever validate_listing returned.
ValidateDetails ==
    /\ val_pc = "listing"
    /\ LET r == validate_details(val_store)
       IN  /\ val_errors' = val_errors + r.errors
           /\ val_warnings' = val_warnings + r.warnings
           /\ val_msgs' = val_msgs \cup r.msgs
    /\ val_checked' = DOMAIN val_store
    /\ val_pc' = "details"
    /\ UNCHANGED << val_listing, val_store, val_store0, val_exit >>
    /\ UNCHANGED << galleryVars, buildVars, specsVars, loadVars, runVars >>

\* main, lines 148-160: the summary and sys.exit.
ValExit ==
    /\ val_pc = "details"
    /\ val_exit' = IF val_errors > 0 THEN 1 ELSE 0
    /\ val_msgs' = val_msgs \cup {IF val_errors > 0 THEN "Validation FAILED" ELSE "Validation PASSED"}
    /\ val_pc' = "exit"
    /\ UNCHANGED << val_listing, val_store, val_store0, val_checked, val_errors,
                    val_warnings >>
    /\ UNCHANGED << galleryVars, buildVars, specsVars, loadVars, runVars >>

(* ----------------------------- specifications -------------------------- *)

GalleryIdle ==
    /\ platform = "posix"
    /\ galleryExists = FALSE
    /\ disk = EmptyMap
    /\ detailGallery = <<>>
    /\ GalleryRest

\* One synchronizer run over one entity's Gallery directory, renames failing
\* in any pattern.
Init == GalleryInit /\ BuildInit /\ SpecsIdle /\ LoadIdle /\ RunIdle /\ ValIdle

Next ==
    \/ StartPass
    \/ StageOk
    \/ StageFail
    \/ FinalizeOk
    \/ FinalizeFailReverted
    \/ FinalizeFailStuck
    \/ BuildList
    \/ UpdateDetail

Spec == Init /\ [][Next]_vars

\* "00.jpg"
N_00jpg == <<48, 48, 46, 106, 112, 103>>

\* "01.PNG"
N_01PNG == <<48, 49, 46, 80, 78, 71>>

\* The directory entries of the rename batches followed failure by failure.
BatchNames == { N_00jpg, N_01jpg, N_01PNG, N_02jpg, N_Ajpg }

\* One synchronizer pass over a directory of numbered and unnumbered images,
\* renames failing in any pattern.
InitBatch ==
    /\ platform \in Platforms
    /\ galleryExists = TRUE
    /\ \E S \in SUBSET BatchNames :
         /\ Cardinality(S) <= MaxFiles
         /\ disk = DiskOf(S)
    /\ detailGallery = build_gallery_list_from_disk(disk, FALSE)
    /\ GalleryRest
    /\ BuildInit
    /\ SpecsIdle
    /\ LoadIdle
    /\ RunIdle
    /\ ValIdle

NextBatch ==
    \/ StartPass
    \/ StageOk
    \/ StageFail
    \/ FinalizeOk
    \/ FinalizeFailReverted
    \/ FinalizeFailStuck
    \/ BuildList
    \/ UpdateDetail

SpecBatch == InitBatch /\ [][NextBatch]_vars

\* One run of the asset synchronizer over a listing of up to MaxEntities entries.
InitRun == GalleryIdle /\ BuildInit /\ SpecsIdle /\ LoadIdle /\ RunInit /\ ValIdle

NextRun ==
    \/ RunStart
    \/ SyncItem
    \/ RunComplete

SpecRun == InitRun /\ [][NextRun]_vars

\* One run of the validator over any listing file and detail store.
InitValidate == GalleryIdle /\ BuildInit /\ SpecsIdle /\ LoadIdle /\ RunIdle /\ ValInit

NextValidate ==
    \/ ValidateListing
    \/ ValidateDetails
    \/ ValExit

SpecValidate == InitValidate /\ [][NextValidate]_vars

\* A directory already named 01..NN (extensions all .jpg, or .jpg and .png in
\* turn), the detail record listing it; no rename is made to fail.
IdemName(i, mixed) ==
    TwoDigits(i) \o (IF mixed /\ i % 2 = 0 THEN <<46, 112, 110, 103>> ELSE <<46, 106, 112, 103>>)

\* The directory sizes followed: the smallest ones, and the largest two.
IdemSizes == {1, 2, 3, MaxIdemN - 1, MaxIdemN}

InitIdem ==
    /\ platform \in Platforms
    /\ galleryExists = TRUE
    /\ \E n \in IdemSizes, mixed \in BOOLEAN :
         disk = DiskOf({ IdemName(i, mixed) : i \in 1..n })
    /\ detailGallery = build_gallery_list_from_disk(disk, FALSE)
    /\ GalleryRest
    /\ BuildInit
    /\ SpecsIdle
    /\ LoadIdle
    /\ RunIdle
    /\ ValIdle

NextIdem ==
    \/ StartPass
    \/ StageOk
    \/ FinalizeOk
    \/ BuildList
    \/ UpdateDetail

SpecIdem == InitIdem /\ [][NextIdem]_vars

\* Passes over a directory a pass has left named 01..NN, one after the other,
\* no rename made to fail.
StartNextPass == StartPassWithin(MaxRecoverPasses)

InitRecover == InitIdem

NextRecover ==
    \/ StartNextPass
    \/ StageOk
    \/ FinalizeOk
    \/ BuildList
    \/ UpdateDetail

SpecRecover == InitRecover /\ [][NextRecover]_vars

\* Compiler builds, one after the other, each on any Projects table.
InitBuild == GalleryIdle /\ BuildInit /\ SpecsIdle /\ LoadIdle /\ RunIdle /\ ValIdle

NextBuild == Build

SpecBuild == InitBuild /\ [][NextBuild]_vars

\* build_specs_array on any raw values and any SpecDefinitions.
InitSpecs == GalleryIdle /\ BuildInit /\ SpecsInit /\ LoadIdle /\ RunIdle /\ ValIdle

NextSpecs == BuildSpecs

SpecSpecs == InitSpecs /\ [][NextSpecs]_vars

\* Compiler builds, one after the other, on any output store.
InitStore == GalleryIdle /\ StoreInit /\ SpecsIdle /\ LoadIdle /\ RunIdle /\ ValIdle

NextStore == StoreBuild

SpecStore == InitStore /\ [][NextStore]_vars

\* Compiler builds and asset-sync runs in any order, from an empty store.
InitPipeline == InitBuild

NextPipeline ==
    \/ PipelineBuild
    \/ SyncStore

SpecPipeline == InitPipeline /\ [][NextPipeline]_vars

\* generate_change_report on any two manifests of the expected shape.
InitReport ==
    /\ GalleryIdle
    /\ SpecsIdle
    /\ LoadIdle
    /\ RunIdle
    /\ ValIdle
    /\ table = <<>>
    /\ listing = <<>>
    /\ details = EmptyMap
    /\ builds = 0
    /\ manifest_file = NoFile
    /\ report_file = NoReport
    /\ crashed = FALSE
    /\ old_manifest \in ReportManifests
    /\ new_manifest \in ReportManifests

NextReport == GenerateReport

SpecReport == InitReport /\ [][NextReport]_vars

\* The compiler run on a wide and on a long ProjectSpecs table that hold the
\* same triples.
InitLoad ==
    /\ GalleryIdle
    /\ BuildInit
    /\ project_specs = <<>>
    /\ \E K \in SUBSET WideKeys : spec_defs \in [K -> SpecDefs]
    /\ specs_arr = <<>>
    /\ specs_pc = "input"
    /\ LoadInit
    /\ RunIdle
    /\ ValIdle

NextLoad ==
    \/ LoadWide
    \/ LoadLong

SpecLoad == InitLoad /\ [][NextLoad]_vars

(* -------------------------------- claims ------------------------------- *)

\* A synchronizer pass over the entity has ended (main went on to the next entity).
PassEnded == pc = "idle" /\ cleanHist # <<>>

\* The image files of a directory.
ImagesOf(d) == { n \in DOMAIN d : is_image(n) }

\* l lists exactly the image files of d, in lowercase-filename order.
IsListingOf(l, d) ==
    /\ Len(l) = Cardinality(ImagesOf(d))
    /\ Range(l) = { RelPath(n) : n \in ImagesOf(d) }
    /\ \A i, j \in 1..Len(l) : i < j => ~StrLess(Lower(l[j]), Lower(l[i]))

\* C1: when a non-dry-run pass ends, the content of every file whose rename
\* failed is still on disk (under whatever name); no other rename destroyed it.
C1_FailedContentSurvives ==
    (PassEnded /\ ~dry_run) =>
        \A c \in failedFiles : \E n \in DOMAIN disk : disk[n] = c

\* C2: after a non-dry-run pass, whatever renames failed, the persisted gallery
\* list is the list of the image files on disk in lowercase-filename order
\* (empty for a missing or empty directory), not the plan.
C2_PersistedIsDisk ==
    (PassEnded /\ ~dry_run) => IsListingOf(detailGallery, disk)

\* C2 witness: a pass with failed renames ended, the detail JSON was rewritten
\* with a non-empty list that is not the plan.
C2_Witness ==
    /\ PassEnded /\ ~dry_run
    /\ failed > 0 /\ wrote
    /\ detailGallery # <<>> /\ detailGallery # planned

\* The directory of the collision example: exactly A.jpg and 01.jpg.
C3_Directory == DiskOf({N_Ajpg, N_01jpg})

\* C3 as stated: in the directory {A.jpg, 01.jpg}, A.jpg is first and 01.jpg
\* second, and a failure-free pass leaves exactly 01.jpg with A.jpg's content
\* and 02.jpg with 01.jpg's content.
C3_AFirst ==
    (PassEnded /\ ~dry_run /\ failed = 0 /\ disk0 = C3_Directory) =>
        /\ ordered = <<N_Ajpg, N_01jpg>>
        /\ disk = (N_01jpg :> N_Ajpg) @@ (N_02jpg :> N_01jpg)

\* C3 amended: in the directory {A.jpg, 01.jpg}, 01.jpg is first and A.jpg
\* second (digits sort before letters), and a failure-free pass leaves exactly
\* 01.jpg with its own content and 02.jpg with A.jpg's content: nothing lost,
\* no temporary name left.
C3_DigitsFirst ==
    (PassEnded /\ ~dry_run /\ failed = 0 /\ disk0 = C3_Directory) =>
        /\ ordered = <<N_01jpg, N_Ajpg>>
        /\ disk = (N_01jpg :> N_01jpg) @@ (N_02jpg :> N_Ajpg)

\* C3 witness: a failure-free pass over {A.jpg, 01.jpg} that renamed ended.
C3_Witness ==
    /\ PassEnded /\ ~dry_run /\ failed = 0 /\ disk0 = C3_Directory
    /\ finalized = 1

\* C4: no rename (stage, finalize or revert) is ever issued onto a name that a
\* different file of the directory holds at that moment.
C4_NoRenameOntoHeldName == ~collision

\* C5: after a non-dry-run pass in which no rename failed, the directory holds
\* exactly the N image files, the i-th of the pre-sync order is named i (two
\* digits) plus its extension and keeps its content, and no name starts with
\* _temp_.
C5_CleanPassNormalizes ==
    (PassEnded /\ ~dry_run /\ failed = 0) =>
        /\ Cardinality(ImagesOf(disk)) = Len(ordered)
        /\ \A i \in 1..Len(ordered) :
             LET t == TwoDigits(i) \o Suffix(ordered[i])
             IN  t \in DOMAIN disk /\ disk[t] = disk0[ordered[i]]
        /\ \A n \in DOMAIN disk : ~StartsWithTemp(n)

\* C5 with the extension in lower case, as the code names the files.
C5_LowerCaseExtension ==
    (PassEnded /\ ~dry_run /\ failed = 0) =>
        /\ Cardinality(ImagesOf(disk)) = Len(ordered)
        /\ \A i \in 1..Len(ordered) :
             LET t == TwoDigits(i) \o Lower(Suffix(ordered[i]))
             IN  t \in DOMAIN disk /\ disk[t] = disk0[ordered[i]]
        /\ \A n \in DOMAIN disk : ~StartsWithTemp(n)

\* C6: a pass over a directory already named 01..NN whose detail record lists
\* it issues no rename and does not write the detail JSON.
C6_Idempotent ==
    (PassEnded /\ ~dry_run) => (nRenames = 0 /\ ~wrote)

\* C7: a dry-run pass issues no rename and writes no detail JSON (directory and
\* detail record stay as they were), never enters the rename loops, and returns
\* the planned list: entry i is the i-th image of the lowercase-filename order
\* under its target name.
C7_DryRunChangesNothing ==
    dry_run =>
        /\ pc \in {"main", "idle"}
        /\ disk = disk0 /\ detailGallery = detail0
        /\ nRenames = 0 /\ ~wrote
        /\ Range(ordered) = (IF galleryExists THEN ImagesOf(disk) ELSE {})
        /\ Len(ordered) = Cardinality(Range(ordered))
        /\ gallery_list = AsSeq([i \in 1..Len(ordered) |->
                                   GALLERY_REL \o TwoDigits(i) \o Lower(Suffix(ordered[i]))])

\* C7 witness: a dry-run pass ended whose plan holds renames and whose returned
\* list differs from the persisted one.
C7_Witness ==
    /\ PassEnded /\ dry_run
    /\ renames # <<>> /\ gallery_list # detailGallery

\* C8: every project that is draft in the latest build's table has no listing
\* entry and no detail JSON.
C8_DraftsAbsent ==
    \A i \in 1..Len(table) :
        table[i].status = S_draft =>
            /\ \A j \in 1..Len(listing) : listing[j].id # table[i].id
            /\ table[i].id \notin DOMAIN details

\* Number of occurrences of x in s.
Count(s, x) == Cardinality({ i \in 1..Len(s) : s[i] = x })

\* The (key, value) pairs of a specs array, in its order.
PairsOf(arr) == AsSeq([i \in 1..Len(arr) |-> <<arr[i].key, arr[i].value>>])

\* A SpecDefinition with the pair's key exists and has emit = true.
GatedIn(pair) == pair[1] \in DOMAIN spec_defs /\ spec_defs[pair[1]].emit = TRUE

\* C9: the specs array holds an entry for a (key, value) pair only if a
\* SpecDefinition with that key exists and has emit = true, and every such
\* value of the source appears (as often as the source holds it).
C9_SpecGating ==
    specs_pc = "built" =>
        /\ \A i \in 1..Len(specs_arr) :
             GatedIn(<<specs_arr[i].key, specs_arr[i].value>>)
        /\ \A pair \in SpecKeys \X SpecValues :
             Count(PairsOf(specs_arr), pair) =
                 IF GatedIn(pair) THEN Count(project_specs, pair) ELSE 0

\* C9 witness: a value with an unknown key and a value with an emit=false
\* definition were dropped, and a third value was emitted.
C9_Witness ==
    /\ specs_pc = "built"
    /\ \E i \in 1..Len(project_specs) : project_specs[i][1] \notin DOMAIN spec_defs
    /\ \E i \in 1..Len(project_specs) :
         /\ project_specs[i][1] \in DOMAIN spec_defs
         /\ ~spec_defs[project_specs[i][1]].emit
    /\ Len(specs_arr) = 1

\* C10: the specs array is ascending in the definitions' order values, and
\* entries of equal order stand in the order in which the source held them.
C10_OrderStable ==
    specs_pc = "built" =>
        /\ \A i \in 1..Len(specs_arr) :
             specs_arr[i].order = spec_defs[specs_arr[i].key].order
        /\ \A i, j \in 1..Len(specs_arr) :
             i < j => specs_arr[i].order <= specs_arr[j].order
        /\ \A o \in 0..MaxOrder :
             LET HasOrder(e) == e.order = o
                 FromSource(pair) == GatedIn(pair) /\ spec_defs[pair[1]].order = o
             IN  PairsOf(SelectSeq(specs_arr, HasOrder)) = SelectSeq(project_specs, FromSource)

\* C10 witness: the sort moved an entry in front of two entries of equal order
\* that kept their source order.
C10_Witness ==
    /\ specs_pc = "built"
    /\ Len(specs_arr) = 3
    /\ specs_arr[1].order < specs_arr[2].order
    /\ specs_arr[2].order = specs_arr[3].order
    /\ specs_arr[2].key # specs_arr[3].key
    /\ PairsOf(specs_arr) # project_specs

\* C11: a wide and a long ProjectSpecs table that hold the same triples give
\* every project the same specs array, entries of equal order in the same
\* relative order included.
C11_WideLongSame ==
    (load_pc = "done" /\ SameData(wide_csv, long_csv)) =>
        \A pid \in ProjectIds : wide_specs[pid] = long_specs[pid]

\* The ids of the two manifests by bucket.
AddedIds == DOMAIN new_manifest.projects \ DOMAIN old_manifest.projects

RemovedIds == DOMAIN old_manifest.projects \ DOMAIN new_manifest.projects

CommonIds == DOMAIN old_manifest.projects \cap DOMAIN new_manifest.projects

ChangedIds == { x \in CommonIds : old_manifest.projects[x] # new_manifest.projects[x] }

UnchangedIds == { x \in CommonIds : old_manifest.projects[x] = new_manifest.projects[x] }

\* The positions of a line in the report.
LinesAt(line) == { i \in 1..Len(report_file.lines) : report_file.lines[i] = line }

\* Position of x in the ascending sequence of ids.
IdRank(x) == CHOOSE i \in 1..Len(IdsAscending) : IdsAscending[i] = x

\* A bucket is shown in the report: when it is not empty, by its title with the
\* count and one line per id, in ascending order of the ids; not at all when it
\* is empty.
BucketShown(title, mark, bucket) ==
    /\ \A n \in 0..Cardinality(ReportIds) :
         Cardinality(LinesAt(title \o ": " \o ToString(n))) =
             IF bucket # {} /\ n = Cardinality(bucket) THEN 1 ELSE 0
    /\ \A x \in ReportIds :
         Cardinality(LinesAt("  " \o mark \o " " \o x)) = IF x \in bucket THEN 1 ELSE 0
    /\ \A x \in bucket :
         \A i \in LinesAt("  " \o mark \o " " \o x) :
             /\ \A h \in LinesAt(title \o ": " \o ToString(Cardinality(bucket))) : h < i
             /\ \A y \in bucket : \A j \in LinesAt("  " \o mark \o " " \o y) :
                    IdRank(x) < IdRank(y) => i < j

\* Every line of the first section stands in front of every line of the second.
SectionBefore(mark1, mark2) ==
    \A x, y \in ReportIds :
        \A i \in LinesAt("  " \o mark1 \o " " \o x), j \in LinesAt("  " \o mark2 \o " " \o y) :
            i < j

\* C12: every id of the two manifests is in exactly one of added, removed,
\* changed, unchanged; the report shows the non-empty buckets only, in the order
\* Added, Removed, Changed, ids ascending, and no line for an unchanged id; it
\* holds "No changes detected." exactly when the three buckets are empty. For
\* old {a:h1, b:h2} and new {b:h2, c:h3} it is Added c, Removed a.
C12_ChangeReport ==
    report_file.exists =>
        /\ BucketShown("Added", "+", AddedIds)
        /\ BucketShown("Removed", "-", RemovedIds)
        /\ BucketShown("Changed", "~", ChangedIds)
        /\ SectionBefore("+", "-") /\ SectionBefore("+", "~") /\ SectionBefore("-", "~")
        /\ (LinesAt("No changes detected.\n") # {})
               <=> (AddedIds = {} /\ RemovedIds = {} /\ ChangedIds = {})
        /\ (/\ old_manifest.projects = ("a" :> "h1") @@ ("b" :> "h2")
            /\ new_manifest.projects = ("b" :> "h2") @@ ("c" :> "h3"))
               => report_file.lines =
                      <<"=== Build Change Report ===\n", "Added: 1", "  + c", "",
                        "Removed: 1", "  - a", "">>

\* C12 witness: a report of two manifests with an added, a removed, a changed
\* and an unchanged id.
C12_Witness ==
    /\ report_file.exists
    /\ AddedIds # {} /\ RemovedIds # {} /\ ChangedIds # {} /\ UnchangedIds # {}

\* The ids of the listing written by the latest build.
ListingIds == { listing[i].id : i \in 1..Len(listing) }

\* The report of a build that found nothing added, removed or changed.
NoChangeReport ==
    ReportFileOf(<<"=== Build Change Report ===\n", "No changes detected.\n">>)

\* C13: a build on the Projects table of the build before it leaves
\* projects.json, the detail JSONs and the manifest as that build left them,
\* and its change report names no added, removed or changed id; whatever the
\* output store was before the first of the two.
C13_CompilerIdempotent ==
    [][ (builds >= 1 /\ builds' = builds + 1 /\ table' = table) =>
            /\ listing' = listing
            /\ details' = details
            /\ manifest_file' = manifest_file
            /\ ~crashed'
            /\ report_file' = NoChangeReport ]_vars

\* C13 witness: a second build ended whose manifest is the one it found, with
\* a published project.
C13_Witness ==
    /\ builds = 2 /\ listing # <<>>
    /\ old_manifest = new_manifest
    /\ report_file = NoChangeReport

\* C14: a build gives the detail record of every published id the gallery of
\* the detail JSON it found for that id, and the empty gallery when it found
\* no detail JSON; the Projects table has no say in it.
C14_GalleryCarried ==
    [][ builds' = builds + 1 =>
            \A i \in 1..Len(listing') :
                LET id == listing'[i].id
                IN  /\ (id \in DOMAIN details /\ details[id].parses /\ details[id].hasGallery)
                        => details'[id].doc.gallery = details[id].doc.gallery
                    /\ id \notin DOMAIN details => details'[id].doc.gallery = <<>> ]_vars

\* C14 witness: a published project whose detail record holds a gallery after a
\* build (no build makes one up), next to one that has none.
C14_Witness ==
    /\ builds >= 1
    /\ \E id \in ListingIds : details[id].doc.gallery # <<>>
    /\ \E id \in ListingIds : details[id].doc.gallery = <<>>

\* C15: a build that finds no manifest, or one that does not parse, or one of
\* another shape than an object with a projects map, runs to its end, reports
\* every published id as Added (nothing removed or changed), and has written
\* the new manifest and the report.
C15_BadManifestNotFatal ==
    (builds >= 1 /\ ~(old_manifest.kind = "object" /\ old_manifest.projKind = "map")) =>
        /\ ~crashed
        /\ manifest_file = ManifestFileOf(new_manifest)
        /\ report_file.exists
        /\ \A id \in ProjectIds :
             /\ (LinesAt("  + " \o id) # {}) <=> (id \in ListingIds)
             /\ LinesAt("  - " \o id) = {} /\ LinesAt("  ~ " \o id) = {}

\* C16: after a build the manifest file holds a projects map whose ids are
\* exactly the ids of the listing that build wrote, each with the hash of the
\* detail record that build wrote for it.
C16_ManifestReplaced ==
    builds >= 1 =>
        /\ manifest_file.exists /\ manifest_file.parses
        /\ manifest_file.value.kind = "object" /\ manifest_file.value.projKind = "map"
        /\ DOMAIN manifest_file.value.projects = ListingIds
        /\ \A id \in ListingIds :
             manifest_file.value.projects[id] = compute_hash(details[id].doc)

\* C16 witness: a build dropped an id of the manifest it found and stored the
\* hash of a detail record that holds a gallery.
C16_Witness ==
    /\ builds >= 1
    /\ old_manifest.projKind = "map"
    /\ DOMAIN old_manifest.projects \ ListingIds # {}
    /\ \E id \in ListingIds : details[id].doc.gallery # <<>>

\* The positions of the log at which a call of the given loop stands.
CallsOf(phase) == { a \in 1..Len(log) : log[a].phase = phase }

\* C17: within a pass every stage rename is issued before any finalize (or
\* revert) rename, and once one of those is issued every file of the plan has
\* had its stage attempt; a finalize is issued only from the temporary name a
\* successful stage rename produced; and the file (content) whose stage rename
\* failed is not moved by any later rename of the pass.
C17_TwoPhaseOrder ==
    /\ \A a, b \in 1..Len(log) :
         (a < b /\ log[a].phase # "stage") => log[b].phase # "stage"
    /\ (\E a \in 1..Len(log) : log[a].phase # "stage")
           => Cardinality(CallsOf("stage")) = Len(renames)
    /\ \A b \in CallsOf("finalize") \cup CallsOf("revert") :
         \E a \in CallsOf("stage") : a < b /\ log[a].ok /\ log[a].dst = log[b].src
    /\ \A a \in CallsOf("stage"), b \in 1..Len(log) :
         (a < b /\ ~log[a].ok) => log[b].content \cap log[a].content = {}
    /\ Cardinality(CallsOf("stage")) <= Len(renames)
    /\ \A a \in CallsOf("stage") :
         Cardinality({ b \in CallsOf("stage") : b <= a }) <= Len(renames)
            /\ log[a].src = renames[Cardinality({ b \in CallsOf("stage") : b <= a })][1]

\* The rename loops of a non-dry-run pass are over.
LoopsOver == pc \in {"build", "main"} \/ PassEnded

\* Position i of the canonical order ended under its target name with its content.
AtTarget(i) ==
    /\ TargetName(i, ordered[i]) \in DOMAIN disk
    /\ disk[TargetName(i, ordered[i])] = disk0[ordered[i]]

\* C18: whatever renames fail, every file of the plan gets a stage attempt and
\* every staged file a finalize attempt; and when exactly one rename call of
\* the batch failed, every file other than the one it was issued for ends the
\* pass under its target name with its own content.
C18_FailureIsolated ==
    (LoopsOver /\ ~dry_run) =>
        /\ Cardinality(CallsOf("stage")) = Len(renames)
        /\ Cardinality(CallsOf("finalize")) =
               Cardinality({ a \in CallsOf("stage") : log[a].ok })
        /\ \A f \in 1..Len(log) :
             ({ a \in 1..Len(log) : ~log[a].ok } = {f}) =>
                 \A i \in 1..Len(ordered) :
                     disk0[ordered[i]] \notin log[f].content => AtTarget(i)

\* C20: the file at position i of the canonical order has the target name i
\* (two digits) followed by its extension as it is, and is in the rename plan
\* exactly when its name differs from that target.
C20_TargetKeepsExtension ==
    pc # "idle" =>
        /\ Len(planned) = Len(ordered)
        /\ \A i \in 1..Len(ordered) :
             /\ planned[i] = RelPath(TwoDigits(i) \o Suffix(ordered[i]))
             /\ (\E r \in 1..Len(renames) : renames[r][1] = ordered[i])
                    <=> ordered[i] # TwoDigits(i) \o Suffix(ordered[i])

\* C19: over a listing whose detail JSONs, where present, parse, a run never
\* ends on an exception, and a completed run has taken every listing entry and
\* called sync_gallery for each one that has an id, a detail JSON and a
\* featuredImage, whatever the entries before it are like (featured file
\* absent, Gallery missing or empty, renames failing, tags empty, Diagrams
\* missing).
C19_RunCompletes ==
    (\A i \in 1..Len(run_listing) : run_listing[i].detail # "garbage") =>
        /\ run_status # "crashed"
        /\ run_status = "complete" =>
              /\ run_i = Len(run_listing)
              /\ \A i \in 1..Len(run_listing) :
                   ReachesSync(run_listing[i]) => i \in run_synced

\* The canonical order of a directory when it is enumerated in ascending order.
RefOrder(d) == normalize_gallery_order(ListImages(d, FALSE))

\* C21: whatever the order in which the directory is enumerated, the canonical
\* order of a pass is the one order its set of file names gives, names that
\* differ in letter case only included; so a failure-free pass gives each file
\* the name of its position in that order and persists the list of those names.
C21_OrderDeterministic ==
    /\ (pc # "idle" /\ galleryExists) => ordered = RefOrder(disk0)
    /\ (PassEnded /\ ~dry_run /\ failed = 0 /\ galleryExists) =>
          /\ \A i \in 1..Len(RefOrder(disk0)) :
               LET t == TargetName(i, RefOrder(disk0)[i])
               IN  t \in DOMAIN disk /\ disk[t] = disk0[RefOrder(disk0)[i]]
          /\ detailGallery = build_gallery_list_from_disk(disk, FALSE)

\* What sync_gallery returns for a directory in dry-run mode.
DryRunList(d, exists) ==
    IF ~exists \/ ListImages(d, FALSE) = <<>> THEN <<>> ELSE PlannedList(RefOrder(d))

\* C22: the list a dry-run pass returns for a directory is, element for
\* element, the list a non-dry-run pass over the same directory persists when
\* no rename fails.
C22_DryRunPreview ==
    /\ (dry_run /\ (pc = "main" \/ PassEnded)) =>
          gallery_list = DryRunList(disk0, galleryExists)
    /\ (~dry_run /\ PassEnded /\ failed = 0) =>
          detailGallery = DryRunList(disk0, galleryExists)

\* The two statuses of the publish gate.
GateStatuses == {S_published, S_coming_soon}

\* The ids whose detail record the latest build wrote (the ids it hashed).
WrittenIds == DOMAIN new_manifest.projects

\* C23: a project of the table gets a listing entry and a detail record in a
\* build exactly when its status (draft when the cell is empty) is published or
\* coming-soon, and the status of every listing entry and of every detail
\* record the build wrote is one of these two values.
C23_PublishGate ==
    builds >= 1 =>
        /\ \A i \in 1..Len(table) :
             /\ table[i].id \in ListingIds <=> table[i].status \in GateStatuses
             /\ table[i].id \in WrittenIds <=> table[i].status \in GateStatuses
        /\ \A j \in 1..Len(listing) : listing[j].status \in GateStatuses
        /\ \A id \in WrittenIds :
             id \in DOMAIN details /\ details[id].doc.status \in GateStatuses

\* C24: when projects.json is absent the validator reports it, checks nothing
\* else (validate_details reads no detail JSON), exits with status 1 and leaves
\* every file of the store as it was.
C24_AbsentListingAborts ==
    (~val_listing.exists /\ val_pc # "start") =>
        /\ "projects.json not found" \in val_msgs
        /\ val_checked = {}
        /\ "Detail JSONs" \notin val_msgs
        /\ val_pc = "exit" => val_exit = 1
        /\ val_store = val_store0

\* C25: a non-dry-run pass in which no rename fails leaves every file that was
\* there when it started named 01..NN (in its canonical order) with its
\* content, no name starting with _temp_, and the persisted list equal to the
\* directory; and the pass that follows such a pass issues no rename, writes
\* no detail JSON and leaves the directory as it is.
C25_RecoveryByRerun ==
    /\ (PassEnded /\ ~dry_run /\ failed = 0) =>
          /\ Cardinality(ImagesOf(disk)) = Len(ordered)
          /\ \A i \in 1..Len(ordered) : AtTarget(i)
          /\ \A n \in DOMAIN disk : ~StartsWithTemp(n)
          /\ IsListingOf(detailGallery, disk)
    /\ (PassEnded /\ ~dry_run /\ Len(cleanHist) >= 2 /\ cleanHist[Len(cleanHist) - 1]) =>
          /\ nRenames = 0
          /\ ~wrote
          /\ disk = disk0

\* The ids the change report lists as Changed.
ReportedChanged == { x \in ProjectIds : LinesAt("  ~ " \o x) # {} }

\* The detail record the latest build hashed for an id.
HashedRecord(x) == new_manifest.projects[x].sha256

\* C26: whatever asset-sync runs came in between, a build after the first
\* reports as Changed exactly the ids it hashes that the previous build hashed
\* too and whose detail record as written now, gallery included, differs from
\* the record the previous build hashed. So on an unchanged table, an id whose
\* gallery a sync rewrote since the previous build is reported Changed, and a
\* build with no rewrite since the previous one reports no changes.
C26_ChangedIffRecordDiffers ==
    [][ (builds >= 1 /\ builds' = builds + 1) =>
          LET prev   == DOMAIN new_manifest.projects
              common == prev \cap DOMAIN new_manifest'.projects
          IN  /\ ~crashed'
              /\ ReportedChanged' =
                    { x \in common : details'[x].doc # HashedRecord(x) }
              /\ table' = table =>
                    /\ \A x \in common :
                         details[x].doc.gallery # HashedRecord(x).gallery
                            => x \in ReportedChanged'
                    /\ (\A x \in common : details[x].doc = HashedRecord(x))
                            => report_file' = NoChangeReport
      ]_vars

\* C26 witness: a build on the table of the build before it has reported an id
\* as Changed whose record differs from the one hashed before in the gallery
\* only, the gallery an asset-sync run wrote in between.
C26_Witness ==
    /\ builds >= 2 /\ ~crashed
    /\ \E x \in ReportedChanged :
         /\ x \in CommonIds
         /\ old_manifest.projects[x].sha256.status = details[x].doc.status
         /\ old_manifest.projects[x].sha256.gallery # details[x].doc.gallery
         /\ details[x].doc.gallery # <<>>

====
